---- MODULE Spec2Model ----
(***************************************************************************)
(* Model of the MCP JSON-RPC dispatch core of mcp-server/app/mcp.py:       *)
(* the tool registry TOOL_HANDLERS, register_tool, the built-in method     *)
(* handlers, handle_tools_call and the dispatcher handle_request.          *)
(*                                                                         *)
(* JSON values are tagged records: [t |-> "null"], [t |-> "str", s |-> _], *)
(* [t |-> "list", items |-> _], [t |-> "dict", d |-> _] where d is a       *)
(* function from key strings to JSON values.  Python None is JNull.        *)
(***************************************************************************)
EXTENDS Integers, Sequences, FiniteSets, Bags, TLC

VARIABLES
    TOOL_HANDLERS,  \* the registry: tool name -> handler
    tasks,          \* bag of handle_request coroutines suspended inside a tool handler
    last,           \* the exchange completed most recently (request, response, handler invoked)
    registered,     \* history: handler passed to the most recent register call, per name
    first_init,     \* history: result of the first initialize request answered
    loop            \* the event loop's thread: free, or held by a handler that never yields

vars == <<TOOL_HANDLERS, tasks, last, registered, first_init, loop>>

----------------------------------------------------------------------------
\* Bounds of the model.

\* coroutines that may be suspended in a handler at the same time
MaxInFlight == 2
\* the clock reads whole seconds 0..MaxClock
MaxClock == 0

----------------------------------------------------------------------------
\* JSON / Python values.

JNull == [t |-> "null"]
JStr(s) == [t |-> "str", s |-> s]
JList(items) == [t |-> "list", items |-> items]
JDict(d) == [t |-> "dict", d |-> d]
EmptyDict == [k \in {} |-> JNull]

\* bool(v) as Python computes it for None, str, list and dict
Truthy(v) ==
    CASE v.t = "null" -> FALSE
      [] v.t = "str" -> v.s # ""
      [] v.t = "list" -> Len(v.items) > 0
      [] v.t = "dict" -> DOMAIN v.d # {}

\* isinstance(v, dict)
IsDict(v) == v.t = "dict"

\* dict.get(key, default)
DictGet(v, key, default) == IF key \in DOMAIN v.d THEN v.d[key] ELSE default

\* type(v).__name__
PyTypeName(v) ==
    CASE v.t = "null" -> "NoneType"
      [] v.t = "str" -> "str"
      [] v.t = "list" -> "list"
      [] v.t = "dict" -> "dict"

\* hash(v) succeeds: lists and dicts are unhashable
Hashable(v) == v.t \in {"null", "str"}

\* what awaiting a coroutine can come to
Return(value) == [kind |-> "return", value |-> value]
Raise(type, msg) == [kind |-> "raise", exc |-> [type |-> type, msg |-> msg]]
Await(handler, arguments) == [kind |-> "await", handler |-> handler, arguments |-> arguments]
Respond(response) == [kind |-> "respond", response |-> response]

----------------------------------------------------------------------------
\* Envelope codec (app.json_rpc).

\* create_success_response(result, id)
create_success_response(result, id) ==
    [jsonrpc |-> "2.0", result |-> result, id |-> id]

\* create_error_response(code, message, id, data)
create_error_response(code, message, id, data) ==
    [jsonrpc |-> "2.0",
     error |-> [code |-> code, message |-> message, data |-> data],
     id |-> id]

IsSuccess(response) == "result" \in DOMAIN response
IsError(response) == "error" \in DOMAIN response

----------------------------------------------------------------------------
\* Built-in method handlers.

\* handle_initialize answering with the protocol version the client asked for
handle_initialize_EchoesVersion(params) ==
    [protocolVersion |->
        IF IsDict(params) /\ "protocolVersion" \in DOMAIN params.d
        THEN params.d.protocolVersion.s ELSE "2024-11-05",
     capabilities |->
        [tools |-> [listChanged |-> FALSE],
         prompts |-> [listChanged |-> FALSE],
         resources |-> [subscribe |-> FALSE, listChanged |-> FALSE],
         logging |-> EmptyDict],
     serverInfo |-> [name |-> "embed-mcp", version |-> "1.0.0"],
     instructions |-> "MCP Server initialized successfully"]

\* handle_initialize(params)
handle_initialize(params) ==
    [protocolVersion |-> "2024-11-05",
     capabilities |->
        [tools |-> [listChanged |-> FALSE],
         prompts |-> [listChanged |-> FALSE],
         resources |-> [subscribe |-> FALSE, listChanged |-> FALSE],
         logging |-> EmptyDict],
     serverInfo |-> [name |-> "embed-mcp", version |-> "1.0.0"],
     instructions |-> "MCP Server initialized successfully"]

\* handle_notifications_initialized(params)
handle_notifications_initialized(params) ==
    [status |-> "acknowledged", message |-> "Server ready for requests"]

\* handle_time(params); now is the clock reading datetime.now(timezone.utc),
\* whole seconds and microseconds
handle_time(params, now) ==
    [method |-> "time",
     server_time |->
        [iso_format |-> [seconds |-> now.whole, micro |-> now.micro, offset |-> "+00:00"],
         timestamp |-> [whole |-> now.whole, micro |-> now.micro],
         unix_timestamp |-> now.whole,
         formatted |-> [seconds |-> now.whole, suffix |-> " UTC"],
         timezone |-> "UTC"],
     message |-> "Time retrieved successfully"]

\* handle_tools_list(params): a literal list, whatever the registry holds
handle_tools_list(params) ==
    [tools |->
        << [name |-> "echo",
            description |-> "Echoes back the provided message.",
            inputSchema |->
                [type |-> "object",
                 properties |->
                    [message |-> [type |-> "string",
                                  description |-> "Message to echo back"]],
                 required |-> <<"message">>]] >>]

----------------------------------------------------------------------------
\* Tool handlers.

\* tool_echo reading arguments["message"]: KeyError when message is absent
tool_echo_RequiresMessage(arguments) ==
    IF ~IsDict(arguments)
    THEN Raise("TypeError", "indices must be integers")
    ELSE IF "message" \notin DOMAIN arguments.d
    THEN Raise("KeyError", "'message'")
    ELSE Return([content |-> << [type |-> "text", text |-> arguments.d.message] >>])

\* tool_echo(arguments): arguments.get raises AttributeError unless arguments is a dict
tool_echo(arguments) ==
    IF IsDict(arguments)
    THEN Return([content |->
                    << [type |-> "text",
                        text |-> DictGet(arguments, "message", JStr(""))] >>])
    ELSE Raise("AttributeError",
               "'" \o PyTypeName(arguments) \o "' object has no attribute 'get'")

\* Handlers a caller may pass to register_tool, by name:
\*   tool_echo  the reference tool
\*   h_fixed    returns a fixed content block
\*   h_raise    raises RuntimeError("boom")
\*   h_slow     awaits I/O, then returns a fixed content block
\*   h_hang     awaits something that never completes
\*   h_block    never returns and never awaits: blocking I/O (a read that never
\*              ends, time.sleep) or a loop, run on the event loop's thread
Handlers == {"tool_echo", "h_fixed", "h_raise", "h_slow", "h_hang", "h_block"}
SuspendingHandlers == {"h_slow", "h_hang"}

FixedContent(text) == [content |-> << [type |-> "text", text |-> JStr(text)] >>]

\* await handler(arguments), up to the handler's first suspension: "suspend"
\* gives the event loop back, "block" keeps its thread and never returns
Invoke(handler, arguments) ==
    CASE handler = "tool_echo" -> tool_echo(arguments)
      [] handler = "h_fixed" -> Return(FixedContent("fixed"))
      [] handler = "h_raise" -> Raise("RuntimeError", "boom")
      [] handler \in SuspendingHandlers -> [kind |-> "suspend"]
      [] handler = "h_block" -> [kind |-> "block"]

\* a suspended handler can be resumed: h_hang never can
CanResume(handler) == handler = "h_slow"

\* what a resumed handler comes to
Resume(handler, arguments) ==
    CASE handler = "h_slow" -> Return(FixedContent("slow"))

----------------------------------------------------------------------------
\* The registry.

\* register_tool keeping the first handler of a name (setdefault)
register_tool_KeepsFirst(registry, tool_name, func) ==
    [n \in DOMAIN registry \cup {tool_name} |->
        IF n \in DOMAIN registry THEN registry[n] ELSE func]

\* register_tool(tool_name)(func): TOOL_HANDLERS[tool_name] = func
register_tool(registry, tool_name, func) ==
    [n \in DOMAIN registry \cup {tool_name} |->
        IF n = tool_name THEN func ELSE registry[n]]

\* TOOL_HANDLERS = {} then TOOL_HANDLERS["echo"] = tool_echo, at import
StartupRegistry == register_tool([n \in {} |-> "tool_echo"], "echo", "tool_echo")

----------------------------------------------------------------------------
\* tools/call and the dispatcher.

\* handle_tools_call(params), up to its last line: Await(handler, arguments)
\* stands for "return await handler(arguments)"
handle_tools_call(params, registry) ==
    IF ~Truthy(params) \/ ~IsDict(params)
    THEN Return([error |-> "Invalid parameters for tools/call"])
    ELSE
      LET tool_name == DictGet(params, "name", JNull)
          arguments == DictGet(params, "arguments", JDict(EmptyDict))
      IN  IF ~Truthy(tool_name)
          THEN Return([error |-> "Tool name is required"])
          ELSE IF ~Hashable(tool_name)
          THEN Raise("TypeError",
                     "unhashable type: '" \o PyTypeName(tool_name) \o "'")
          ELSE IF tool_name.s \notin DOMAIN registry
          THEN Return([error |-> "Unknown tool: " \o tool_name.s])
          ELSE Await(registry[tool_name.s], arguments)

KnownMethods ==
    {"initialize", "notifications/initialized", "time", "tools/list", "tools/call"}

\* handle_request without its else branch: result is unbound for an unknown method
Route_MissingElse(request, registry, now) ==
    LET method == request.method
        params == request.params
    IN  CASE method = "initialize" -> Return(handle_initialize(params))
          [] method = "notifications/initialized" ->
                Return(handle_notifications_initialized(params))
          [] method = "time" -> Return(handle_time(params, now))
          [] method = "tools/list" -> Return(handle_tools_list(params))
          [] method = "tools/call" -> handle_tools_call(params, registry)
          [] OTHER ->
                Raise("UnboundLocalError",
                      "cannot access local variable 'result' where it is not associated with a value")

\* handle_request, the routing: which handler the method selects and what
\* awaiting it comes to
Route(request, registry, now) ==
    LET method == request.method
        params == request.params
    IN  CASE method = "initialize" -> Return(handle_initialize(params))
          [] method = "notifications/initialized" ->
                Return(handle_notifications_initialized(params))
          [] method = "time" -> Return(handle_time(params, now))
          [] method = "tools/list" -> Return(handle_tools_list(params))
          [] method = "tools/call" -> handle_tools_call(params, registry)
          [] OTHER ->
                Respond(create_error_response(
                    "METHOD_NOT_FOUND", "Method not found: " \o method,
                    request.id, JNull))

\* handle_request catching TypeError alone: any other exception leaves it
Settle_NarrowExcept(request, outcome) ==
    CASE outcome.kind = "return" ->
            create_success_response(outcome.value, request.id)
      [] outcome.kind = "raise" ->
            IF outcome.exc.type = "TypeError"
            THEN create_error_response(
                    "INTERNAL_ERROR", "Internal error: " \o outcome.exc.msg,
                    request.id, JNull)
            ELSE [propagated |-> outcome.exc]
      [] outcome.kind = "respond" -> outcome.response

\* handle_request whose except clause does not pass the request's id
Settle_ErrorDropsId(request, outcome) ==
    CASE outcome.kind = "return" ->
            create_success_response(outcome.value, request.id)
      [] outcome.kind = "raise" ->
            create_error_response(
                "INTERNAL_ERROR", "Internal error: " \o outcome.exc.msg,
                JNull, JNull)
      [] outcome.kind = "respond" -> outcome.response

\* handle_request, after the selected handler is through: the success
\* envelope, or the except clause's INTERNAL_ERROR envelope
Settle(request, outcome) ==
    CASE outcome.kind = "return" ->
            create_success_response(outcome.value, request.id)
      [] outcome.kind = "raise" ->
            create_error_response(
                "INTERNAL_ERROR", "Internal error: " \o outcome.exc.msg,
                request.id, JNull)
      [] outcome.kind = "respond" -> outcome.response

----------------------------------------------------------------------------
\* Inputs.

\* request ids: absent (None), a number, a string
IdNull == JNull
RequestIds == {IdNull, [t |-> "int", n |-> 1]}
StringIds == {[t |-> "str", s |-> "a"]}

\* params of tools/call requests
CallParams ==
    { JNull,
      JList(<< >>),
      JList(<< JStr("echo") >>),
      JDict(EmptyDict),
      JDict([arguments |-> JDict(EmptyDict)]),
      JDict([name |-> JStr("")]),
      JDict([name |-> JList(<< JStr("echo") >>)]),
      JDict([name |-> JStr("echo")]),
      JDict([name |-> JStr("echo"), arguments |-> JDict(EmptyDict)]),
      JDict([name |-> JStr("echo"), arguments |-> JDict([message |-> JStr("hi")])]),
      JDict([name |-> JStr("echo"), arguments |-> JDict([message |-> JNull])]),
      JDict([name |-> JStr("echo"), arguments |-> JNull]),
      JDict([name |-> JStr("missing_tool"), arguments |-> JDict(EmptyDict)]),
      JDict([name |-> JStr("t1"), arguments |-> JDict([message |-> JStr("yo")])]),
      JDict([name |-> JStr("t2")]) }

InitializeParams == {JNull, JDict([protocolVersion |-> JStr("2025-03-26")])}

UnknownMethods == {"resources/list", "ping"}

\* every method with an absent and a numeric id, every params shape of
\* tools/call, and a string id on one success path and one error path
Requests ==
    [method : {"initialize"}, params : InitializeParams, id : RequestIds]
    \cup [method : {"notifications/initialized", "time", "tools/list"} \cup UnknownMethods,
          params : {JNull}, id : RequestIds]
    \cup [method : {"tools/call"}, params : CallParams, id : RequestIds]
    \cup [method : {"tools/list", "ping"}, params : {JNull}, id : StringIds]

\* clock readings
Instants == [whole : 0..MaxClock, micro : {0, 500000}]

\* the clock readings a request's handling may see; only time reads the clock
ClockReadings(request) ==
    IF request.method = "time" THEN Instants ELSE {[whole |-> 0, micro |-> 0]}

\* the (name, handler) pairs callers register: echo is the reference tool or
\* is overwritten, t1 fails or is slow, t2 never returns (awaiting or blocking)
Registrations ==
    { <<"echo", "tool_echo">>, <<"echo", "h_fixed">>,
      <<"t1", "h_raise">>, <<"t1", "h_slow">>,
      <<"t2", "h_hang">>, <<"t2", "h_block">> }

\* registries register_tool calls can build from the startup registry
Registries ==
    { r \in UNION {[D -> Handlers] : D \in SUBSET {"echo", "t1", "t2"}} :
        /\ "echo" \in DOMAIN r
        /\ \A n \in DOMAIN r : <<n, r[n]>> \in Registrations }

----------------------------------------------------------------------------
\* State and actions.

NoExchange == [state |-> "none"]

\* a completed exchange: the request, the response handle_request returned, the
\* tool handler it invoked ("none" if none) and what the selected handler came to
Exchange(request, response, invoked, outcome) ==
    [state |-> "done", request |-> request, response |-> response,
     invoked |-> invoked, outcome |-> outcome]

\* a handle_request coroutine suspended at "await handler(arguments)"
Task(request, handler, arguments) ==
    [request |-> request, handler |-> handler, arguments |-> arguments]

\* the event loop's thread: every coroutine of handle_request runs on it
LoopFree == [held |-> FALSE]
LoopHeld(task) == [held |-> TRUE, task |-> task]

Init ==
    /\ TOOL_HANDLERS = StartupRegistry
    /\ registered = StartupRegistry
    /\ tasks = EmptyBag
    /\ last = NoExchange
    /\ first_init = [state |-> "none"]
    /\ loop = LoopFree

\* @register_tool(tool_name) applied to func: a plain synchronous function,
\* which any thread can call whether or not the event loop's thread is free
RegisterTool(tool_name, func) ==
    /\ TOOL_HANDLERS' = register_tool(TOOL_HANDLERS, tool_name, func)
    /\ registered' = [n \in DOMAIN registered \cup {tool_name} |->
                         IF n = tool_name THEN func ELSE registered[n]]
    /\ UNCHANGED <<tasks, last, first_init, loop>>

\* the first initialize result answered is remembered
NoteInitialize(request, response) ==
    IF request.method = "initialize" /\ IsSuccess(response)
       /\ first_init.state = "none"
    THEN [state |-> "set", params |-> request.params, result |-> response.result]
    ELSE first_init

\* handle_request(request), run by the event loop until it returns, its tool
\* handler suspends, or its tool handler blocks: the coroutine is an async def
\* awaited on the loop's thread, so it starts only when that thread is free
HandleRequest(request, now) ==
    LET routed == Route(request, TOOL_HANDLERS, now)
        called == routed.kind = "await"
        outcome == IF called THEN Invoke(routed.handler, routed.arguments)
                   ELSE routed
    IN  /\ ~loop.held
        /\ IF outcome.kind = "suspend"
           THEN /\ BagCardinality(tasks) < MaxInFlight
                /\ tasks' = tasks (+) SetToBag({Task(request, routed.handler,
                                                     routed.arguments)})
                /\ UNCHANGED <<TOOL_HANDLERS, registered, last, first_init, loop>>
           ELSE IF outcome.kind = "block"
           THEN /\ loop' = LoopHeld(Task(request, routed.handler, routed.arguments))
                /\ UNCHANGED <<TOOL_HANDLERS, registered, tasks, last, first_init>>
           ELSE LET response == Settle(request, outcome)
                IN  /\ last' = Exchange(request, response,
                                        IF called THEN routed.handler ELSE "none",
                                        outcome)
                    /\ first_init' = NoteInitialize(request, response)
                    /\ UNCHANGED <<TOOL_HANDLERS, registered, tasks, loop>>

\* the response of a suspended coroutine once its handler is through
TaskResponse(task) ==
    Settle(task.request, Resume(task.handler, task.arguments))

\* the event loop resumes a suspended coroutine: its handler returns and
\* handle_request returns the response
ResumeTask(task) ==
    /\ ~loop.held
    /\ BagIn(task, tasks)
    /\ CanResume(task.handler)
    /\ last' = Exchange(task.request, TaskResponse(task), task.handler,
                        Resume(task.handler, task.arguments))
    /\ tasks' = tasks (-) SetToBag({task})
    /\ UNCHANGED <<TOOL_HANDLERS, registered, first_init, loop>>

Next ==
    \/ \E reg \in Registrations : RegisterTool(reg[1], reg[2])
    \/ \E request \in Requests : \E now \in ClockReadings(request) :
            HandleRequest(request, now)
    \/ \E task \in BagToSet(tasks) : ResumeTask(task)

Spec == Init /\ [][Next]_vars

\* The service after startup: the registry is populated and registers no more.
ServingInit ==
    /\ TOOL_HANDLERS \in Registries
    /\ registered = TOOL_HANDLERS
    /\ tasks = EmptyBag
    /\ last = NoExchange
    /\ first_init = [state |-> "none"]
    /\ loop = LoopFree

ServingNext ==
    \/ \E request \in Requests : \E now \in ClockReadings(request) :
            HandleRequest(request, now)
    \/ \E task \in BagToSet(tasks) : ResumeTask(task)

ServingSpec == ServingInit /\ [][ServingNext]_vars

----------------------------------------------------------------------------
\* Properties.

\* s contains m as a substring
Contains(s, m) ==
    \E i \in 0..(Len(s) - Len(m)) : SubSeq(s, i + 1, i + Len(m)) = m

Done == last.state = "done"
IsCall == Done /\ last.request.method = "tools/call"
Midnight == [whole |-> 0, micro |-> 0]
IdOne == [t |-> "int", n |-> 1]
InFlight == BagToSet(tasks)

\* C1: a request with an unknown method m is answered by an error envelope of
\* kind METHOD_NOT_FOUND whose message contains m and whose id is the
\* request's; no tool handler is invoked and the answer is the same whatever
\* the registry holds.
C1_UnknownMethod ==
    (Done /\ last.request.method \notin KnownMethods) =>
        /\ IsError(last.response)
        /\ last.response.error.code = "METHOD_NOT_FOUND"
        /\ Contains(last.response.error.message, last.request.method)
        /\ last.response.id = last.request.id
        /\ last.invoked = "none"
        /\ \A r \in Registries :
              Settle(last.request, Route(last.request, r, Midnight)) = last.response

C1_Witness ==
    /\ Done
    /\ last.request.method = "resources/list"
    /\ last.request.id = IdOne
    /\ "t1" \in DOMAIN TOOL_HANDLERS
    /\ IsError(last.response)

\* params of a tools/call that are omitted, not an object, or an object
\* without a name
InvalidCallParams(params) == ~IsDict(params) \/ "name" \notin DOMAIN params.d

\* C2: a tools/call whose params is omitted, is not an object, or is an object
\* without a name is answered by an error envelope of kind INVALID_PARAMS,
\* not by a success envelope, and no tool handler is invoked.
C2_InvalidParamsIsError ==
    (IsCall /\ InvalidCallParams(last.request.params)) =>
        /\ IsError(last.response)
        /\ last.response.error.code = "INVALID_PARAMS"
        /\ last.invoked = "none"

\* the names some registration can bind
RegistrableNames == {reg[1] : reg \in Registrations}

\* C3: a tools/call naming a tool that is not registered is answered by an
\* error envelope saying the tool was not found, not by a success envelope;
\* no handler is invoked.
C3_UnknownToolIsError ==
    (/\ IsCall
     /\ IsDict(last.request.params)
     /\ DictGet(last.request.params, "name", JNull).t = "str"
     /\ DictGet(last.request.params, "name", JNull).s \notin RegistrableNames
     /\ DictGet(last.request.params, "name", JNull).s # "") =>
        /\ IsError(last.response)
        /\ last.invoked = "none"

\* C4: when the selected method handler, or the tool handler tools/call
\* reaches, raises an exception, the request is answered by an error envelope
\* of kind INTERNAL_ERROR whose message carries the exception's description
\* and whose id is the request's.
C4_ExceptionIsInternalError ==
    (Done /\ last.outcome.kind = "raise") =>
        /\ IsError(last.response)
        /\ last.response.error.code = "INTERNAL_ERROR"
        /\ Contains(last.response.error.message, last.outcome.exc.msg)
        /\ last.response.id = last.request.id

C4_Witness ==
    /\ Done
    /\ last.invoked = "h_raise"
    /\ last.outcome.kind = "raise"
    /\ last.request.id = IdOne
    /\ IsError(last.response)

\* every answer is one envelope, success or error, carrying the request's id
C5_Envelope ==
    Done =>
        /\ IsSuccess(last.response) # IsError(last.response)
        /\ last.response.jsonrpc = "2.0"
        /\ last.response.id = last.request.id

\* a step that answers answers one request: one dispatched in that step, or
\* one in flight, which is then in flight no more
C5_AnswersOnce ==
    (last' # last) =>
        /\ last'.state = "done"
        /\ \/ tasks' = tasks
           \/ \E t \in InFlight :
                /\ t.request = last'.request
                /\ tasks' = tasks (-) SetToBag({t})

\* C5: every request handle_request returns from gets exactly one response
\* envelope, whose id is the request's id; a request without an id is
\* answered too, with id null.
C5_OneResponseSameId == [](C5_Envelope) /\ [][C5_AnswersOnce]_vars

C5_Witness ==
    /\ Done
    /\ last.request.method = "notifications/initialized"
    /\ last.request.id = IdNull
    /\ IsSuccess(last.response)
    /\ last.response.id = IdNull

\* the names tools/list returned
ListedNames(response) ==
    {response.result.tools[i].name : i \in DOMAIN response.result.tools}

\* C6: the names tools/list returns are the names registered in the registry
\* when it is answered.
C6_ListEqualsRegistry ==
    [][(/\ last' # last
        /\ last'.state = "done"
        /\ last'.request.method = "tools/list") =>
            /\ IsSuccess(last'.response)
            /\ ListedNames(last'.response) = DOMAIN TOOL_HANDLERS']_vars

\* C7: with echo bound to the reference tool, a tools/call of echo with an
\* arguments mapping (or none) is answered by a success envelope whose result
\* is one text content block holding arguments.message, or the empty string
\* when message is absent.
C7_Echo ==
    (/\ IsCall
     /\ TOOL_HANDLERS["echo"] = "tool_echo"
     /\ IsDict(last.request.params)
     /\ DictGet(last.request.params, "name", JNull) = JStr("echo")
     /\ IsDict(DictGet(last.request.params, "arguments", JDict(EmptyDict)))) =>
        LET arguments == DictGet(last.request.params, "arguments", JDict(EmptyDict))
            m == IF "message" \in DOMAIN arguments.d
                 THEN arguments.d.message ELSE JStr("")
        IN  /\ IsSuccess(last.response)
            /\ last.response.result = [content |-> << [type |-> "text", text |-> m] >>]

C7_Witness ==
    /\ IsCall
    /\ TOOL_HANDLERS["echo"] = "tool_echo"
    /\ last.request.params = JDict([name |-> JStr("echo")])
    /\ IsSuccess(last.response)
    /\ last.response.result.content[1].text = JStr("")

\* every initialize is answered with the result of the first one
C8_SameResult ==
    (Done /\ last.request.method = "initialize") =>
        /\ IsSuccess(last.response)
        /\ first_init.state = "set"
        /\ last.response.result = first_init.result

\* answering initialize leaves the registry as it is
C8_NoSideEffect ==
    (last' # last /\ last'.state = "done" /\ last'.request.method = "initialize") =>
        TOOL_HANDLERS' = TOOL_HANDLERS

\* C8: any two initialize requests, whatever is dispatched between them, get
\* identical results, and dispatching initialize leaves the registry unchanged.
C8_InitializeIdempotent == [](C8_SameResult) /\ [][C8_NoSideEffect]_vars

C8_Witness ==
    /\ Done
    /\ last.request.method = "initialize"
    /\ first_init.state = "set"
    /\ first_init.params # last.request.params
    /\ "t1" \in DOMAIN TOOL_HANDLERS

\* the name a tools/call request gives
CalledName(request) == request.params.d.name.s

\* a tools/call that reaches a handler reaches the one registered last for
\* its name, and that handler's result is the response's result
C9_CallsLatest ==
    /\ (last' # last /\ tasks' = tasks /\ last'.invoked # "none") =>
          /\ CalledName(last'.request) \in DOMAIN registered
          /\ last'.invoked = registered[CalledName(last'.request)]
          /\ last'.outcome.kind = "return" =>
                /\ IsSuccess(last'.response)
                /\ last'.response.result = last'.outcome.value
    /\ \A t \in BagToSet(tasks') :
          CopiesIn(t, tasks') > CopiesIn(t, tasks) =>
              /\ CalledName(t.request) \in DOMAIN registered
              /\ t.handler = registered[CalledName(t.request)]

\* a register call changes no name but its own
C9_OthersKept ==
    \A n \in DOMAIN TOOL_HANDLERS :
        (n \in DOMAIN registered /\ registered'[n] = registered[n]) =>
            /\ n \in DOMAIN TOOL_HANDLERS'
            /\ TOOL_HANDLERS'[n] = TOOL_HANDLERS[n]

\* C9: registration overwrites: the registry maps each name to the handler of
\* the most recent register call for it, a tools/call invokes that handler
\* and returns its result verbatim, and registering a name changes no other.
C9_LastRegistrationWins ==
    /\ [](TOOL_HANDLERS = registered)
    /\ [][C9_CallsLatest /\ C9_OthersKept]_vars

C9_Witness ==
    /\ IsCall
    /\ TOOL_HANDLERS["echo"] = "h_fixed"
    /\ "t1" \in DOMAIN TOOL_HANDLERS
    /\ last.invoked = "h_fixed"
    /\ CalledName(last.request) = "echo"
    /\ IsSuccess(last.response)
    /\ last.response.result = FixedContent("fixed")

\* the response of a request dispatched alone and run to its end
ResponseAlone(request, registry) ==
    LET routed == Route(request, registry, Midnight)
        first == IF routed.kind = "await"
                 THEN Invoke(routed.handler, routed.arguments) ELSE routed
        outcome == IF first.kind = "suspend"
                   THEN Resume(routed.handler, routed.arguments) ELSE first
    IN  Settle(request, outcome)

\* an answered request other than time got the response it gets alone
C10_AsIfAlone ==
    (Done /\ last.request.method # "time") =>
        last.response = ResponseAlone(last.request, TOOL_HANDLERS)

\* some request's handler never returns: it awaits for ever, or it holds the
\* event loop's thread
SomeHandlerNeverReturns ==
    loop.held \/ \E t \in InFlight : ~CanResume(t.handler)

\* a request that needs no handler other than its own
OtherRequest == [method |-> "initialize", params |-> JNull, id |-> IdOne]

\* while some request's handler never returns, the other requests go on: a
\* suspended one whose handler is through can be resumed, and a new one can
\* be dispatched and answered
C10_OthersGoOn ==
    SomeHandlerNeverReturns =>
        /\ \A t \in InFlight : CanResume(t.handler) => ENABLED ResumeTask(t)
        /\ ENABLED HandleRequest(OtherRequest, Midnight)

\* C10: with the registry fixed, requests in flight together do not interfere:
\* each gets the response it would get alone, and a handler that never returns
\* keeps only its own request from completing, all others still complete.
C10_NoInterference == C10_AsIfAlone /\ C10_OthersGoOn

====
